---- MODULE Spec2Model ----
(***************************************************************************)
(* Tile coding with hashing (src/Tiles/tilesn.py): the module scratch      *)
(* arrays, the random table, the UNH hash, the CollisionTable with its     *)
(* open-addressing resolver, and the tiles / tileswrap entry points.       *)
(*                                                                         *)
(* Arrays are functions over 0..len-1.  A real input is the exact rational *)
(* num / FloatDen, carried as its numerator.  Integers stay far below      *)
(* 2^31 within the bounds, so the 32-bit width of the arrays plays no role.*)
(***************************************************************************)
EXTENDS Integers, Sequences, FiniteSets, TLC

(* ---------------------------------------------------------------- bounds *)
MaxSize == 3            \* table sizes 1..MaxSize (powers of two and others)
MaxCalls == 4           \* cap on ct.calls, so the counters stay finite
MaxTilings == 2         \* numtilings in 1..MaxTilings
FloatDen == 2           \* reals are multiples of 1/FloatDen
MaxRawCalls == 2        \* raw-memory calls explored per behaviour
BufLen == 3             \* length of the caller's array handed to loadtiles
MaxLog == 2             \* 'safe' tables of size 2^0 .. 2^MaxLog for the probe sequence
MaxFixTilings == 4      \* numtilings in 1..MaxFixTilings for the coordinate formula

(* ------------------------------------------------------ program constants *)
_maxnumfloats == 20
_maxLongint == 2147483647
_maxLongintBy4 == _maxLongint \div 4
RandomTableLen == 2048
RandomRange == 65536
PrimaryIncrement == 449
CheckIncrement == 457

VARIABLES
    seed,               \* which random table the import drew
    _qstate,            \* scratch: quantized reals
    _base,              \* scratch: displacement per real dimension
    _coordinates,       \* scratch: the coordinate vector handed to the hash
    _widthxnumtilings,  \* scratch of the wrap entry points
    ct,                 \* the CollisionTable object (made = FALSE before construction)
    rawcalls,           \* number of raw-memory calls made so far
    done,               \* history: safe-mode tiles calls that delivered only slot indices, with their result
    buffer,             \* the caller's array handed to loadtiles / loadtileswrap
    thr,                \* two threads inside tiles(): position and local variables of each
    last                \* the last operation and what it delivered to its caller

vars == <<seed, _qstate, _base, _coordinates, _widthxnumtilings, ct, rawcalls, done, buffer, thr,
          last>>

(* ------------------------------------------------------------ input sets *)
Seeds == {0, 1}
Sizes == 1..MaxSize
Safeties == {"safe", "unsafe", "super safe"}
TruthValues == {"raise", "any"}
WrapWidths == {0, 2}
RawSizes == {1, 3, 4}
FloatLists == {<<>>, <<-3>>, <<2, -3>>}
IntLists == {<<>>, <<-1>>}
CTFloatLists == {<<2>>, <<-1>>}
CTIntLists == {<<>>}
LongFloats == [k \in 1..(_maxnumfloats + 1) |-> 1]
EntryFloatLists == CTFloatLists \cup {<<2, -3>>, LongFloats}
EntryRawSize == 4
Starts == {0, BufLen - 2}
FixNums == {-3, 0, 2}
FixFloatLists == {<<a, b, c>> : a \in FixNums, b \in FixNums, c \in FixNums}

\* The first n entries of an array, as a sequence.
Prefix(arr, n) == [k \in 1..n |-> arr[k - 1]]

\* A sequence as an array (a Python list indexed from 0).
AsArray(s) == [k \in 0..(Len(s) - 1) |-> s[k + 1]]

(* ---------------------------------------------------------- random table *)
\* One table per seed, every entry in [0, RandomRange).
_randomTable(k) ==
    IF seed = 0 THEN k
    ELSE (31 * k * k + 7 * k + 11 * seed) % RandomRange

(* -------------------------------------------------------------- hashUNH *)
RECURSIVE hashUNHsum(_, _, _, _)
hashUNHsum(ints, numInts, increment, i) ==
    IF i >= numInts THEN 0
    ELSE _randomTable((ints[i] + i * increment) % RandomTableLen)
         + hashUNHsum(ints, numInts, increment, i + 1)

\* The sum returned without the final reduction below m.
hashUNHNoMod(ints, numInts, m, increment) ==
    hashUNHsum(ints, numInts, increment, 0)

hashUNH(ints, numInts, m, increment) ==
    hashUNHsum(ints, numInts, increment, 0) % m

(* ------------------------------------------------------- CollisionTable *)
\* math.log(n, 2) has no fractional part; exact for the sizes of the model
\* (the float quotient is exact for every power of two below 2^29).
powerOf2(n) == \E k \in 0..n : 2^k = n

NoTable ==
    [made |-> FALSE, size |-> 0, safety |-> "safe", calls |-> 0,
     clearhits |-> 0, collisions |-> 0, data |-> [i \in 0..-1 |-> -1]]

\* __init__: the power-of-two test only prints; the object is built either way.
CollisionTableInit(sizeval, safetyval) ==
    [made |-> TRUE, size |-> sizeval, safety |-> safetyval, calls |-> 0,
     clearhits |-> 0, collisions |-> 0, data |-> [i \in 0..(sizeval - 1) |-> -1]]

\* A reset that zeroes the counters and keeps the slots.
resetNoData(c) ==
    [c EXCEPT !.calls = 0, !.clearhits = 0, !.collisions = 0]

reset(c) ==
    [c EXCEPT !.calls = 0, !.clearhits = 0, !.collisions = 0,
              !.data = [i \in 0..(c.size - 1) |-> -1]]

usage(c) == Cardinality({i \in DOMAIN c.data : c.data[i] >= 0})

\* A Python value handed to a caller: an integer, or a bound method object.
PyInt(n) == [kind |-> "int", val |-> n, name |-> ""]
BoundMethod(name) == [kind |-> "method", val |-> 0, name |-> name]

\* return self.calls, self.clearhits, self.collisions, self.usage
stats(c) ==
    <<PyInt(c.calls), PyInt(c.clearhits), PyInt(c.collisions), BoundMethod("usage")>>

(* ----------------------------------------------------------------- hash *)
HashOut(c, j, raised, exh, iters, writes) ==
    [ct |-> c, ret |-> j, raised |-> raised, exh |-> exh, iters |-> iters, writes |-> writes]

\* A rehash loop that only looks for an empty spot and never recognises the
\* call's own signature on the way.
RECURSIVE hashProbeEmptyOnly(_, _, _, _, _, _, _)
hashProbeEmptyOnly(c, ccheck, h2, j, i, iters, writes) ==
    LET c1 == [c EXCEPT !.collisions = @ + 1]
        j1 == (j + h2) % c.size
    IN  IF i > c.size THEN HashOut(c1, -1, FALSE, TRUE, iters + 1, writes)
        ELSE IF c1.data[j1] < 0
             THEN HashOut([c1 EXCEPT !.data[j1] = ccheck], j1, FALSE, FALSE, iters + 1, writes + 1)
             ELSE hashProbeEmptyOnly(c1, ccheck, h2, j1, i + 1, iters + 1, writes)

\* A rehash loop that allows itself one more attempt before giving up.
RECURSIVE hashProbeLate(_, _, _, _, _, _, _)
hashProbeLate(c, ccheck, h2, j, i, iters, writes) ==
    IF ccheck = c.data[j] THEN HashOut(c, j, FALSE, FALSE, iters, writes)
    ELSE LET c1 == [c EXCEPT !.collisions = @ + 1]
             j1 == (j + h2) % c.size
         IN  IF i > c.size + 1 THEN HashOut(c1, -1, FALSE, TRUE, iters + 1, writes)
             ELSE IF c1.data[j1] < 0
                  THEN hashProbeLate([c1 EXCEPT !.data[j1] = ccheck], ccheck, h2, j1, i + 1,
                                     iters + 1, writes + 1)
                  ELSE hashProbeLate(c1, ccheck, h2, j1, i + 1, iters + 1, writes)

\* The rehash loop: one collision per iteration, the bound tested before the store.
RECURSIVE hashProbe(_, _, _, _, _, _, _)
hashProbe(c, ccheck, h2, j, i, iters, writes) ==
    IF ccheck = c.data[j] THEN HashOut(c, j, FALSE, FALSE, iters, writes)
    ELSE LET c1 == [c EXCEPT !.collisions = @ + 1]
             j1 == (j + h2) % c.size
         IN  IF i > c.size THEN HashOut(c1, -1, FALSE, TRUE, iters + 1, writes)
             ELSE IF c1.data[j1] < 0
                  THEN hashProbe([c1 EXCEPT !.data[j1] = ccheck], ccheck, h2, j1, i + 1,
                                 iters + 1, writes + 1)
                  ELSE hashProbe(c1, ccheck, h2, j1, i + 1, iters + 1, writes)

\* 'super safe': ccheck is the array ints[:], so `ccheck == ct.data[j]` is an
\* elementwise comparison whose truth value the array library decides (tv): it
\* raises, or it is true when some element matches.  Storing the array into one
\* integer slot raises, after clearhits was counted.
hashSuperSafe(ints, c0, j, tv) ==
    IF tv = "raise" THEN HashOut(c0, j, TRUE, FALSE, 0, 0)
    ELSE IF \E k \in DOMAIN ints : ints[k] = c0.data[j]
         THEN HashOut([c0 EXCEPT !.clearhits = @ + 1], j, FALSE, FALSE, 0, 0)
         ELSE IF c0.data[j] < 0
              THEN HashOut([c0 EXCEPT !.clearhits = @ + 1], j, TRUE, FALSE, 0, 0)
              ELSE HashOut(c0, j, TRUE, FALSE, 0, 0)

\* An 'unsafe' collision that takes the slot over.
hashUnsafeOverwrite(c0, j, ccheck) ==
    HashOut([c0 EXCEPT !.collisions = @ + 1, !.data[j] = ccheck], j, FALSE, FALSE, 0, 0)

\* An 'unsafe' collision that looks for another slot, one step at a time.
hashUnsafeProbe(c0, j, ccheck) ==
    hashProbe(c0, ccheck, 1, j, 1, 0, 0)

\* 'unsafe': a collision is counted and the primary slot returned as it is.
hashUnsafeCollision(c0, j, ccheck) ==
    HashOut([c0 EXCEPT !.collisions = @ + 1], j, FALSE, FALSE, 0, 0)

\* A rehash step that is twice the hash value, without the added one.
rehashStepEven(ints, numInts) ==
    2 * hashUNH(ints, numInts, _maxLongintBy4, PrimaryIncrement)

\* h2 = 1 + 2*hashUNH(ints, numInts, _maxLongintBy4)
rehashStep(ints, numInts) ==
    1 + 2 * hashUNH(ints, numInts, _maxLongintBy4, PrimaryIncrement)

hash(ints, numInts, c, tv) ==
    LET c0 == [c EXCEPT !.calls = @ + 1]
        j == hashUNH(ints, numInts, c.size, PrimaryIncrement)
        ccheck == hashUNH(ints, numInts, _maxLongint, CheckIncrement)
    IN  IF c.safety = "super safe" THEN hashSuperSafe(ints, c0, j, tv)
        ELSE IF ccheck = c0.data[j]
             THEN HashOut([c0 EXCEPT !.clearhits = @ + 1], j, FALSE, FALSE, 0, 0)
             ELSE IF c0.data[j] < 0
                  THEN HashOut([c0 EXCEPT !.clearhits = @ + 1, !.data[j] = ccheck],
                               j, FALSE, FALSE, 0, 1)
                  ELSE IF c.safety = "unsafe"
                       THEN hashUnsafeCollision(c0, j, ccheck)
                       ELSE hashProbe(c0, ccheck, rehashStep(ints, numInts), j, 1, 0, 0)

\* The primary slot and the fingerprint hash() computes for a coordinate vector.
VecPrimary(v, c) == hashUNH(AsArray(v), Len(v), c.size, PrimaryIncrement)
VecCheck(v) == hashUNH(AsArray(v), Len(v), _maxLongint, CheckIncrement)

(* ------------------------------------------------- coordinate generation *)
\* Python's % for either sign of the divisor.
PyMod(a, b) == IF b > 0 THEN a % b ELSE 0 - ((0 - a) % (0 - b))

\* A remainder that truncates toward zero.
modTrunc(num, by) ==
    IF num >= 0 THEN PyMod(num, by) ELSE 0 - PyMod(0 - num, by)

mod(num, by) ==
    IF num >= 0 THEN PyMod(num, by) ELSE PyMod(by + PyMod(num, by), by)

\* int(math.floor(float * numtilings)) for float = num / FloatDen.
quantize(num, numtilings) == (num * numtilings) \div FloatDen

Scratch == [q |-> _qstate, b |-> _base, c |-> _coordinates, w |-> _widthxnumtilings]

ZeroScratch ==
    [q |-> [i \in 0..(_maxnumfloats - 1) |-> 0],
     b |-> [i \in 0..(_maxnumfloats - 1) |-> 0],
     c |-> [i \in 0..(2 * _maxnumfloats) |-> 0],
     w |-> <<>>]

\* for v in ints: _coordinates[i] = v; i += 1
RECURSIVE storeInts(_, _, _, _)
storeInts(c, ints, i, k) ==
    IF k > Len(ints) THEN c
    ELSE storeInts([c EXCEPT ![i] = ints[k]], ints, i + 1, k + 1)

\* The quantizing loop without `_base[i] = 0`.
RECURSIVE quantizeLoopKeepBase(_, _, _, _)
quantizeLoopKeepBase(sc, numtilings, floats, i) ==
    IF i >= Len(floats) THEN sc
    ELSE quantizeLoopKeepBase([sc EXCEPT !.q[i] = quantize(floats[i + 1], numtilings)],
                              numtilings, floats, i + 1)

\* for float in floats: _base[i] = 0; _qstate[i] = floor(float * numtilings); i += 1
RECURSIVE quantizeLoop(_, _, _, _)
quantizeLoop(sc, numtilings, floats, i) ==
    IF i >= Len(floats) THEN sc
    ELSE quantizeLoop([sc EXCEPT !.b[i] = 0, !.q[i] = quantize(floats[i + 1], numtilings)],
                      numtilings, floats, i + 1)

\* A store past the end of a scratch array raises IndexError: _coordinates has
\* 1 + 2*_maxnumfloats entries (the ints go to numfloats+1 ..), _base and _qstate
\* have _maxnumfloats.
startTilesRaises(floats, ints) ==
    \/ Len(ints) > 0 /\ Len(floats) + Len(ints) > 2 * _maxnumfloats
    \/ Len(floats) > _maxnumfloats

\* The scratch arrays as the raising startTiles leaves them: the stores made
\* before the failing one.
startTilesPartial(sc, numtilings, floats, ints) ==
    IF Len(ints) > 0 /\ Len(floats) + Len(ints) > 2 * _maxnumfloats
    THEN LET fit == IF Len(floats) >= 2 * _maxnumfloats THEN 0
                    ELSE 2 * _maxnumfloats - Len(floats)
         IN  [sc EXCEPT !.c = storeInts(sc.c, SubSeq(ints, 1, fit), Len(floats) + 1, 1)]
    ELSE quantizeLoop([sc EXCEPT !.c = storeInts(sc.c, ints, Len(floats) + 1, 1)],
                      numtilings, SubSeq(floats, 1, _maxnumfloats), 0)

startTiles(sc, numtilings, floats, ints) ==
    quantizeLoop([sc EXCEPT !.c = storeInts(sc.c, ints, Len(floats) + 1, 1)],
                 numtilings, floats, 0)

\* A displaced coordinate whose second branch forgets to step one tile down.
displacedNoStep(q, b, numtilings) ==
    IF q >= b THEN q - ((q - b) % numtilings)
    ELSE q + 1 + ((b - q - 1) % numtilings)

\* The displaced coordinate of one real dimension in the current tiling.
displaced(q, b, numtilings) ==
    IF q >= b THEN q - ((q - b) % numtilings)
    ELSE q + 1 + ((b - q - 1) % numtilings) - numtilings

RECURSIVE fixcoordLoop(_, _, _, _)
fixcoordLoop(sc, numtilings, numfloats, i) ==
    IF i >= numfloats THEN sc
    ELSE fixcoordLoop([sc EXCEPT !.c[i] = displaced(sc.q[i], sc.b[i], numtilings),
                                 !.b[i] = sc.b[i] + 1 + 2 * i],
                      numtilings, numfloats, i + 1)

\* fixcoord without the store of the tiling index after the reals.
fixcoordNoTilingIndex(sc, numtilings, numfloats, j) ==
    fixcoordLoop(sc, numtilings, numfloats, 0)

fixcoord(sc, numtilings, numfloats, j) ==
    [fixcoordLoop(sc, numtilings, numfloats, 0) EXCEPT !.c[numfloats] = j]

\* A wrap step that folds an unwrapped dimension onto its absolute value.
wrappedAbs(coord, wrapwidth, width) ==
    IF wrapwidth # 0 THEN mod(coord, width)
    ELSE IF coord < 0 THEN 0 - coord ELSE coord

wrapped(coord, wrapwidth, width) ==
    IF wrapwidth # 0 THEN mod(coord, width) ELSE coord

RECURSIVE fixcoordwrapLoop(_, _, _, _, _)
fixcoordwrapLoop(sc, numtilings, numfloats, wrapwidths, i) ==
    IF i >= numfloats THEN sc
    ELSE fixcoordwrapLoop(
             [sc EXCEPT !.c[i] = wrapped(displaced(sc.q[i], sc.b[i], numtilings),
                                         wrapwidths[i + 1], sc.w[i]),
                        !.b[i] = sc.b[i] + 1 + 2 * i],
             numtilings, numfloats, wrapwidths, i + 1)

fixcoordwrap(sc, numtilings, numfloats, j, wrapwidths) ==
    [fixcoordwrapLoop(sc, numtilings, numfloats, wrapwidths, 0) EXCEPT !.c[numfloats] = j]

(* ------------------------------------------------------------- hashtile *)
\* memctable is a CollisionTable (isCT) or a bare integer m.
TableMem(c) == [isCT |-> TRUE, ct |-> c, m |-> 0]
RawMem(m) == [isCT |-> FALSE, ct |-> NoTable, m |-> m]

hashtile(sc, memctable, numcoord, tv) ==
    IF memctable.isCT
    THEN LET h == hash(sc.c, numcoord, memctable.ct, tv)
         IN  [mem |-> TableMem(h.ct), ret |-> h.ret, raised |-> h.raised, exh |-> h.exh]
    ELSE [mem |-> memctable, ret |-> hashUNH(sc.c, numcoord, memctable.m, PrimaryIncrement),
          raised |-> FALSE, exh |-> FALSE]

(* ------------------------------------------------------ tiles, tileswrap *)
TilesOut(sc, mem, tlist, vecs, raised, exh) ==
    [sc |-> sc, mem |-> mem, ret |-> tlist, vecs |-> vecs, raised |-> raised, exh |-> exh]

\* The loop over the tilings; vecs collects the vector each hashtile call read.
RECURSIVE tilesLoop(_, _, _, _, _, _, _, _, _, _)
tilesLoop(sc, mem, numtilings, numfloats, numcoord, tv, j, tlist, vecs, exh) ==
    IF j >= numtilings THEN TilesOut(sc, mem, tlist, vecs, FALSE, exh)
    ELSE LET sc1 == fixcoord(sc, numtilings, numfloats, j)
             h == hashtile(sc1, mem, numcoord, tv)
             vecs1 == Append(vecs, Prefix(sc1.c, numcoord))
         IN  IF h.raised THEN TilesOut(sc1, h.mem, tlist, vecs1, TRUE, exh)
             ELSE tilesLoop(sc1, h.mem, numtilings, numfloats, numcoord, tv, j + 1,
                            Append(tlist, h.ret), vecs1, exh \/ h.exh)

\* tiles() that cuts the reals down to the first _maxnumfloats instead of failing.
tilesTruncating(sc, numtilings, memctable, floats, ints, tv) ==
    LET cut == IF Len(floats) > _maxnumfloats THEN SubSeq(floats, 1, _maxnumfloats) ELSE floats
    IN  tilesLoop(startTiles(sc, numtilings, cut, ints), memctable, numtilings,
                  Len(cut), 1 + Len(cut) + Len(ints), tv, 0, <<>>, <<>>, FALSE)

tiles(sc, numtilings, memctable, floats, ints, tv) ==
    IF startTilesRaises(floats, ints)
    THEN TilesOut(startTilesPartial(sc, numtilings, floats, ints), memctable, <<>>, <<>>,
                  TRUE, FALSE)
    ELSE tilesLoop(startTiles(sc, numtilings, floats, ints), memctable, numtilings,
                   Len(floats), 1 + Len(floats) + Len(ints), tv, 0, <<>>, <<>>, FALSE)

RECURSIVE tileswrapLoop(_, _, _, _, _, _, _, _, _, _, _)
tileswrapLoop(sc, mem, numtilings, numfloats, numcoord, wrapwidths, tv, j, tlist, vecs, exh) ==
    IF j >= numtilings THEN TilesOut(sc, mem, tlist, vecs, FALSE, exh)
    ELSE LET sc1 == fixcoordwrap(sc, numtilings, numfloats, j, wrapwidths)
             h == hashtile(sc1, mem, numcoord, tv)
             vecs1 == Append(vecs, Prefix(sc1.c, numcoord))
         IN  IF h.raised THEN TilesOut(sc1, h.mem, tlist, vecs1, TRUE, exh)
             ELSE tileswrapLoop(sc1, h.mem, numtilings, numfloats, numcoord, wrapwidths, tv,
                                j + 1, Append(tlist, h.ret), vecs1, exh \/ h.exh)

tileswrap(sc, numtilings, memsize, floats, wrapwidths, ints, tv) ==
    IF startTilesRaises(floats, ints)
    THEN TilesOut(startTilesPartial(sc, numtilings, floats, ints), memsize, <<>>, <<>>,
                  TRUE, FALSE)
    ELSE
    LET sc0 == startTiles(sc, numtilings, floats, ints)
        sc1 == [sc0 EXCEPT !.w = [i \in 0..(Len(floats) - 1) |-> wrapwidths[i + 1] * numtilings]]
    IN  tileswrapLoop(sc1, memsize, numtilings, Len(floats), 1 + Len(floats) + Len(ints),
                      wrapwidths, tv, 0, <<>>, <<>>, FALSE)

(* ------------------------------------------------ loadtiles, loadtileswrap *)
\* What a load call leaves: the scratch, the memory, the caller's array.
LoadOut(sc, mem, buf, vecs, raised, exh) ==
    [sc |-> sc, mem |-> mem, buf |-> buf, vecs |-> vecs, raised |-> raised, exh |-> exh]

\* tiles[k] = hnum on a caller's array: k in -len..len-1, negative k counted from the end.
InRange(buf, k) == k >= 0 - Cardinality(DOMAIN buf) /\ k < Cardinality(DOMAIN buf)
PyIndex(buf, k) == IF k < 0 THEN k + Cardinality(DOMAIN buf) ELSE k

\* A load loop that writes every tile one entry too far.
RECURSIVE loadtilesLoopShifted(_, _, _, _, _, _, _, _, _, _, _)
loadtilesLoopShifted(sc, mem, buf, startelement, numtilings, numfloats, numcoord, tv, j, vecs, exh) ==
    IF j >= numtilings THEN LoadOut(sc, mem, buf, vecs, FALSE, exh)
    ELSE LET sc1 == fixcoord(sc, numtilings, numfloats, j)
             h == hashtile(sc1, mem, numcoord, tv)
             vecs1 == Append(vecs, Prefix(sc1.c, numcoord))
         IN  IF h.raised \/ ~InRange(buf, startelement + j + 1)
             THEN LoadOut(sc1, h.mem, buf, vecs1, TRUE, exh)
             ELSE loadtilesLoopShifted(sc1, h.mem,
                                [buf EXCEPT ![PyIndex(buf, startelement + j + 1)] = h.ret],
                                startelement, numtilings, numfloats, numcoord, tv, j + 1,
                                vecs1, exh \/ h.exh)

RECURSIVE loadtilesLoop(_, _, _, _, _, _, _, _, _, _, _)
loadtilesLoop(sc, mem, buf, startelement, numtilings, numfloats, numcoord, tv, j, vecs, exh) ==
    IF j >= numtilings THEN LoadOut(sc, mem, buf, vecs, FALSE, exh)
    ELSE LET sc1 == fixcoord(sc, numtilings, numfloats, j)
             h == hashtile(sc1, mem, numcoord, tv)
             vecs1 == Append(vecs, Prefix(sc1.c, numcoord))
         IN  IF h.raised \/ ~InRange(buf, startelement + j)
             THEN LoadOut(sc1, h.mem, buf, vecs1, TRUE, exh)
             ELSE loadtilesLoop(sc1, h.mem,
                                [buf EXCEPT ![PyIndex(buf, startelement + j)] = h.ret],
                                startelement, numtilings, numfloats, numcoord, tv, j + 1,
                                vecs1, exh \/ h.exh)

loadtiles(sc, buf, startelement, numtilings, memctable, floats, ints, tv) ==
    IF startTilesRaises(floats, ints)
    THEN LoadOut(startTilesPartial(sc, numtilings, floats, ints), memctable, buf, <<>>,
                 TRUE, FALSE)
    ELSE loadtilesLoop(startTiles(sc, numtilings, floats, ints), memctable, buf, startelement,
                       numtilings, Len(floats), 1 + Len(floats) + Len(ints), tv, 0, <<>>, FALSE)

RECURSIVE loadtileswrapLoop(_, _, _, _, _, _, _, _, _, _, _, _)
loadtileswrapLoop(sc, mem, buf, startelement, numtilings, numfloats, numcoord, wrapwidths, tv, j, vecs, exh) ==
    IF j >= numtilings THEN LoadOut(sc, mem, buf, vecs, FALSE, exh)
    ELSE LET sc1 == fixcoordwrap(sc, numtilings, numfloats, j, wrapwidths)
             h == hashtile(sc1, mem, numcoord, tv)
             vecs1 == Append(vecs, Prefix(sc1.c, numcoord))
         IN  IF h.raised \/ ~InRange(buf, startelement + j)
             THEN LoadOut(sc1, h.mem, buf, vecs1, TRUE, exh)
             ELSE loadtileswrapLoop(sc1, h.mem,
                                    [buf EXCEPT ![PyIndex(buf, startelement + j)] = h.ret],
                                    startelement, numtilings, numfloats, numcoord, wrapwidths,
                                    tv, j + 1, vecs1, exh \/ h.exh)

loadtileswrap(sc, buf, startelement, numtilings, memsize, floats, wrapwidths, ints, tv) ==
    IF startTilesRaises(floats, ints)
    THEN LoadOut(startTilesPartial(sc, numtilings, floats, ints), memsize, buf, <<>>,
                 TRUE, FALSE)
    ELSE
    LET sc0 == startTiles(sc, numtilings, floats, ints)
        sc1 == [sc0 EXCEPT !.w = [i \in 0..(Len(floats) - 1) |-> wrapwidths[i + 1] * numtilings]]
    IN  loadtileswrapLoop(sc1, memsize, buf, startelement, numtilings, Len(floats),
                          1 + Len(floats) + Len(ints), wrapwidths, tv, 0, <<>>, FALSE)

(* ------------------------------------------------------- state machine *)
\* Vectors for direct hash(ints, numInts, ct) calls: one-entry vectors that share
\* primary slots, and two-entry vectors that are permutations of each other.
HashVecs == {<<c>> : c \in 0..MaxSize} \cup {<<0, 1>>, <<1, 0>>}

TruthValuesFor(c) == IF c.safety = "super safe" THEN TruthValues ELSE {"raise"}

\* Some entry the call is going to read was left non-zero by an earlier call.
Stale(numfloats, numcoord) ==
    \/ \E i \in 0..(numfloats - 1) : _base[i] # 0 \/ _qstate[i] # 0
    \/ \E k \in 0..(numcoord - 1) : _coordinates[k] # 0

\* What an operation leaves for its caller to see; every operation fills its part.
NoLast ==
    [op |-> "import", numtilings |-> 0, m |-> 0, floats |-> <<>>, wrapwidths |-> <<>>,
     ints |-> <<>>, ret |-> <<>>, vecs |-> <<>>, raised |-> FALSE, exh |-> FALSE,
     stale |-> FALSE, printed |-> FALSE, repeat |-> FALSE, dirty |-> FALSE,
     tv |-> "raise", start |-> 0, stats |-> <<>>]

TilesLast(op, numtilings, m, floats, wrapwidths, ints, t, stale, repeat) ==
    [NoLast EXCEPT !.op = op, !.numtilings = numtilings, !.m = m, !.floats = floats,
                   !.wrapwidths = wrapwidths, !.ints = ints, !.ret = t.ret, !.vecs = t.vecs,
                   !.raised = t.raised, !.exh = t.exh, !.stale = stale, !.repeat = repeat]

\* The caller's array before any loadtiles call: BufLen entries, none a tile index.
NoBuffer == [k \in 0..(BufLen - 1) |-> 0 - 9]

\* A thread that is not inside tiles().
IdleThread ==
    [pc |-> "idle", numtilings |-> 0, m |-> 1, floats |-> <<>>, ints |-> <<>>,
     numfloats |-> 0, numcoord |-> 0, j |-> 0, tlist |-> <<>>, mixed |-> FALSE]

Threads == {1, 2}

NoThreads == [p \in Threads |-> IdleThread]

DoneRec(numtilings, floats, ints, ret) ==
    [numtilings |-> numtilings, floats |-> floats, ints |-> ints, ret |-> ret]

Init ==
    /\ seed \in Seeds
    /\ _qstate = ZeroScratch.q
    /\ _base = ZeroScratch.b
    /\ _coordinates = ZeroScratch.c
    /\ _widthxnumtilings = ZeroScratch.w
    /\ ct = NoTable
    /\ rawcalls = 0
    /\ done = {}
    /\ buffer = NoBuffer
    /\ thr = NoThreads
    /\ last = NoLast

SetScratch(sc) ==
    /\ _qstate' = sc.q
    /\ _base' = sc.b
    /\ _coordinates' = sc.c
    /\ _widthxnumtilings' = sc.w

\* ct = CollisionTable(sizeval, safetyval)
Construct ==
    \E sizeval \in Sizes, safetyval \in Safeties :
        /\ ~ct.made
        /\ ct' = CollisionTableInit(sizeval, safetyval)
        /\ done' = {}
        /\ last' = [NoLast EXCEPT !.op = "construct", !.printed = ~powerOf2(sizeval)]
        /\ UNCHANGED <<seed, _qstate, _base, _coordinates, _widthxnumtilings, rawcalls, buffer, thr>>

\* ct = CollisionTable(2^k, 'safe')
ConstructPow2 ==
    \E k \in 0..MaxLog :
        /\ ~ct.made
        /\ ct' = CollisionTableInit(2^k, "safe")
        /\ done' = {}
        /\ last' = [NoLast EXCEPT !.op = "construct", !.printed = ~powerOf2(2^k)]
        /\ UNCHANGED <<seed, _qstate, _base, _coordinates, _widthxnumtilings, rawcalls, buffer, thr>>

\* ct.reset()
Reset ==
    /\ ct.made
    /\ ct' = reset(ct)
    /\ done' = {}
    /\ last' = [NoLast EXCEPT !.op = "reset",
                              !.dirty = usage(ct) > 0 /\ ct.clearhits > 0 /\ ct.collisions > 0]
    /\ UNCHANGED <<seed, _qstate, _base, _coordinates, _widthxnumtilings, rawcalls, buffer, thr>>

\* hash(ints, numInts, ct) called directly with a caller's vector
HashCall ==
    /\ ct.made
    /\ ct.calls < MaxCalls
    /\ \E v \in HashVecs, tv \in TruthValuesFor(ct) :
           \E h \in {hash(AsArray(v), Len(v), ct, tv)} :
               /\ ct' = h.ct
               /\ last' = [NoLast EXCEPT !.op = "hash", !.vecs = <<v>>,
                                         !.ret = IF h.raised THEN <<>> ELSE <<h.ret>>,
                                         !.raised = h.raised, !.exh = h.exh]
    /\ UNCHANGED <<seed, _qstate, _base, _coordinates, _widthxnumtilings, rawcalls, done, buffer,
                 thr>>

\* tiles(numtilings, ct, floats, ints)
TilesCT ==
    \E numtilings \in 1..MaxTilings, floats \in CTFloatLists, ints \in CTIntLists,
       tv \in TruthValuesFor(ct) :
        /\ ct.made
        /\ ct.calls + numtilings <= MaxCalls
        /\ \E t \in {tiles(Scratch, numtilings, TableMem(ct), floats, ints, tv)} :
               /\ SetScratch(t.sc)
               /\ ct' = t.mem.ct
               /\ done' = IF ct.safety = "safe" /\ ~t.raised
                             /\ \A k \in 1..Len(t.ret) : t.ret[k] >= 0
                          THEN done \cup {DoneRec(numtilings, floats, ints, t.ret)}
                          ELSE done
               /\ last' = TilesLast("tiles", numtilings, 0, floats, <<>>, ints, t,
                                    Stale(Len(floats), 1 + Len(floats) + Len(ints)),
                                    \E d \in done : /\ d.numtilings = numtilings
                                                    /\ d.floats = floats
                                                    /\ d.ints = ints)
        /\ UNCHANGED <<seed, rawcalls, buffer, thr>>

\* tiles(numtilings, m, floats, ints) with a bare integer m
TilesRaw ==
    /\ rawcalls < MaxRawCalls
    /\ rawcalls' = rawcalls + 1
    /\ \E numtilings \in 1..MaxTilings, m \in RawSizes, floats \in FloatLists, ints \in IntLists :
           \E t \in {tiles(Scratch, numtilings, RawMem(m), floats, ints, "raise")} :
               /\ SetScratch(t.sc)
               /\ last' = TilesLast("tiles", numtilings, m, floats, <<>>, ints, t,
                                    Stale(Len(floats), 1 + Len(floats) + Len(ints)), FALSE)
    /\ UNCHANGED <<seed, ct, done, buffer, thr>>

\* tileswrap(numtilings, m, floats, wrapwidths, ints) with a bare integer m
TilesWrapRaw ==
    /\ rawcalls < MaxRawCalls
    /\ rawcalls' = rawcalls + 1
    /\ \E numtilings \in 1..MaxTilings, m \in RawSizes, floats \in FloatLists, ints \in IntLists :
           \E wrapwidths \in [1..Len(floats) -> WrapWidths] :
               \E t \in {tileswrap(Scratch, numtilings, RawMem(m), floats, wrapwidths, ints,
                                   "raise")} :
                   /\ SetScratch(t.sc)
                   /\ last' = TilesLast("tileswrap", numtilings, m, floats, wrapwidths, ints, t,
                                        Stale(Len(floats), 1 + Len(floats) + Len(ints)), FALSE)
    /\ UNCHANGED <<seed, ct, done, buffer, thr>>

\* ct.stats()
Stats ==
    /\ ct.made
    /\ last' = [NoLast EXCEPT !.op = "stats", !.stats = stats(ct)]
    /\ UNCHANGED <<seed, _qstate, _base, _coordinates, _widthxnumtilings, ct, rawcalls, done,
                   buffer, thr>>

\* ct.usage()
Usage ==
    /\ ct.made
    /\ last' = [NoLast EXCEPT !.op = "usage", !.ret = <<usage(ct)>>]
    /\ UNCHANGED <<seed, _qstate, _base, _coordinates, _widthxnumtilings, ct, rawcalls, done,
                   buffer, thr>>

(* ---- the four entry points on either kind of memory, long inputs included *)
\* The memory argument: the table, or a bare integer.
EntryMems == {TableMem(ct), RawMem(EntryRawSize)}

\* Behaviours of the entry-point specification: the construction, at most one
\* tiles call on the table, then at most one wrap or load call.
EntryGuard(mem, numtilings, after) ==
    /\ ct.made
    /\ last.op \in after
    /\ mem.isCT => ct.calls + numtilings <= MaxCalls

BeforeTiles == {"construct"}
BeforeLast == {"construct", "tiles"}

EntryStale(floats, ints) ==
    IF startTilesRaises(floats, ints) THEN FALSE
    ELSE Stale(Len(floats), 1 + Len(floats) + Len(ints))

\* Wrap widths of a call: every combination for short inputs, one width for all
\* dimensions of a long one.
WrapLists(floats) ==
    IF Len(floats) <= 2 THEN [1..Len(floats) -> WrapWidths]
    ELSE {[k \in 1..Len(floats) |-> w] : w \in WrapWidths}

\* tiles(numtilings, memctable, floats, ints)
TilesEntry ==
    \E numtilings \in 1..MaxTilings, floats \in EntryFloatLists, ints \in CTIntLists,
       mem \in {TableMem(ct)}, tv \in TruthValuesFor(ct) :
        /\ EntryGuard(mem, numtilings, BeforeTiles)
        /\ \E t \in {tiles(Scratch, numtilings, mem, floats, ints, tv)} :
               /\ SetScratch(t.sc)
               /\ ct' = IF mem.isCT THEN t.mem.ct ELSE ct
               /\ last' = [TilesLast("tiles", numtilings, mem.m, floats, <<>>, ints, t,
                                     EntryStale(floats, ints), FALSE) EXCEPT !.tv = tv]
        /\ UNCHANGED <<seed, rawcalls, done, buffer, thr>>

\* tileswrap(numtilings, memsize, floats, wrapwidths, ints)
TilesWrapEntry ==
    \E numtilings \in 1..MaxTilings, floats \in EntryFloatLists, ints \in CTIntLists,
       mem \in EntryMems, tv \in TruthValuesFor(ct) :
        /\ EntryGuard(mem, numtilings, BeforeLast)
        /\ \E wrapwidths \in WrapLists(floats) :
               \E t \in {tileswrap(Scratch, numtilings, mem, floats, wrapwidths, ints, tv)} :
                   /\ SetScratch(t.sc)
                   /\ ct' = IF mem.isCT THEN t.mem.ct ELSE ct
                   /\ last' = [TilesLast("tileswrap", numtilings, mem.m, floats, wrapwidths,
                                         ints, t, EntryStale(floats, ints), FALSE)
                                   EXCEPT !.tv = tv]
        /\ UNCHANGED <<seed, rawcalls, done, buffer, thr>>

\* What a load call leaves for its caller: nothing is returned.
LoadLast(op, numtilings, m, floats, wrapwidths, ints, t, startelement, tv) ==
    [NoLast EXCEPT !.op = op, !.numtilings = numtilings, !.m = m, !.floats = floats,
                   !.wrapwidths = wrapwidths, !.ints = ints, !.vecs = t.vecs,
                   !.raised = t.raised, !.exh = t.exh, !.stale = EntryStale(floats, ints),
                   !.tv = tv, !.start = startelement]

\* loadtiles(buffer, startelement, numtilings, memctable, floats, ints)
LoadTiles ==
    \E numtilings \in 1..MaxTilings, floats \in EntryFloatLists, ints \in CTIntLists,
       mem \in EntryMems, tv \in TruthValuesFor(ct), startelement \in Starts :
        /\ EntryGuard(mem, numtilings, BeforeLast)
        /\ \E t \in {loadtiles(Scratch, buffer, startelement, numtilings, mem, floats, ints, tv)} :
               /\ SetScratch(t.sc)
               /\ ct' = IF mem.isCT THEN t.mem.ct ELSE ct
               /\ buffer' = t.buf
               /\ last' = LoadLast("loadtiles", numtilings, mem.m, floats, <<>>, ints, t,
                                   startelement, tv)
        /\ UNCHANGED <<seed, rawcalls, done, thr>>

\* loadtileswrap(buffer, startelement, numtilings, memsize, floats, wrapwidths, ints)
LoadTilesWrap ==
    \E numtilings \in 1..MaxTilings, floats \in EntryFloatLists, ints \in CTIntLists,
       mem \in EntryMems, tv \in TruthValuesFor(ct), startelement \in Starts :
        /\ EntryGuard(mem, numtilings, BeforeLast)
        /\ \E wrapwidths \in WrapLists(floats) :
               \E t \in {loadtileswrap(Scratch, buffer, startelement, numtilings, mem, floats,
                                       wrapwidths, ints, tv)} :
                   /\ SetScratch(t.sc)
                   /\ ct' = IF mem.isCT THEN t.mem.ct ELSE ct
                   /\ buffer' = t.buf
                   /\ last' = LoadLast("loadtileswrap", numtilings, mem.m, floats, wrapwidths,
                                       ints, t, startelement, tv)
        /\ UNCHANGED <<seed, rawcalls, done, thr>>

Next == Construct \/ Reset \/ HashCall \/ TilesCT

Spec == Init /\ [][Next]_vars

NextRaw == TilesRaw \/ TilesWrapRaw

SpecRaw == Init /\ [][NextRaw]_vars

(* ---- two threads inside tiles() on raw memory, sharing the scratch arrays *)
\* A step of thread p that writes the scratch arrays falls into the call of every
\* other thread that is between its startTiles and its last hashtile.
Mix(p, t) ==
    [q \in Threads |->
        IF q = p THEN t
        ELSE IF thr[q].pc \in {"fix", "hash"} THEN [thr[q] EXCEPT !.mixed = TRUE]
        ELSE thr[q]]

\* tiles() lines 209-212: numfloats, numcoord, startTiles, tlist = []
ThreadStart(p) ==
    /\ thr[p].pc = "idle"
    /\ \E numtilings \in 1..MaxTilings, floats \in FloatLists, ints \in CTIntLists :
           /\ SetScratch(startTiles(Scratch, numtilings, floats, ints))
           /\ thr' = Mix(p, [pc |-> "fix", numtilings |-> numtilings, m |-> EntryRawSize,
                             floats |-> floats, ints |-> ints, numfloats |-> Len(floats),
                             numcoord |-> 1 + Len(floats) + Len(ints), j |-> 0,
                             tlist |-> <<>>, mixed |-> FALSE])
    /\ UNCHANGED <<seed, ct, rawcalls, done, buffer, last>>

\* tiles() line 214: fixcoord(numtilings, numfloats, j)
ThreadFix(p) ==
    /\ thr[p].pc = "fix"
    /\ SetScratch(fixcoord(Scratch, thr[p].numtilings, thr[p].numfloats, thr[p].j))
    /\ thr' = Mix(p, [thr[p] EXCEPT !.pc = "hash"])
    /\ UNCHANGED <<seed, ct, rawcalls, done, buffer, last>>

\* tiles() lines 215-216 and the loop test: hashtile, append, next tiling or return
ThreadHash(p) ==
    /\ thr[p].pc = "hash"
    /\ \E h \in {hashtile(Scratch, RawMem(thr[p].m), thr[p].numcoord, "raise")} :
           thr' = [thr EXCEPT ![p] = [@ EXCEPT !.tlist = Append(@, h.ret),
                                               !.j = @ + 1,
                                               !.pc = IF thr[p].j + 1 >= thr[p].numtilings
                                                      THEN "done" ELSE "fix"]]
    /\ UNCHANGED <<seed, _qstate, _base, _coordinates, _widthxnumtilings, ct, rawcalls, done,
                   buffer, last>>

NextConc == \E p \in Threads : ThreadStart(p) \/ ThreadFix(p) \/ ThreadHash(p)

SpecConc == Init /\ [][NextConc]_vars

\* tiles(numtilings, m, floats) over three real dimensions, for the coordinates
TilesFix ==
    \E numtilings \in 1..MaxFixTilings, floats \in FixFloatLists :
        \E t \in {tiles(Scratch, numtilings, RawMem(EntryRawSize), floats, <<>>, "raise")} :
            /\ SetScratch(t.sc)
            /\ last' = TilesLast("tiles", numtilings, EntryRawSize, floats, <<>>, <<>>, t,
                                 Stale(Len(floats), 1 + Len(floats)), FALSE)
            /\ UNCHANGED <<seed, ct, rawcalls, done, buffer, thr>>

NextFix == TilesFix

SpecFix == Init /\ [][NextFix]_vars

NextProbe == ConstructPow2 \/ HashCall

SpecProbe == Init /\ [][NextProbe]_vars

NextStats == Construct \/ Reset \/ HashCall \/ Stats \/ Usage

SpecStats == Init /\ [][NextStats]_vars

NextEntry == Construct \/ TilesEntry \/ TilesWrapEntry \/ LoadTiles \/ LoadTilesWrap

\* The caller's array may hold anything when it is handed over.
InitEntry ==
    /\ seed \in Seeds
    /\ _qstate = ZeroScratch.q
    /\ _base = ZeroScratch.b
    /\ _coordinates = ZeroScratch.c
    /\ _widthxnumtilings = ZeroScratch.w
    /\ ct = NoTable
    /\ rawcalls = 0
    /\ done = {}
    /\ buffer \in {NoBuffer, [k \in 0..(BufLen - 1) |-> k + 5]}
    /\ thr = NoThreads
    /\ last = NoLast

SpecEntry == InitEntry /\ [][NextEntry]_vars

(* ============================== properties ============================== *)
\* The last operation was a table-backed tiles call / a raw tiles call.
TableTiles == ct.made /\ last.op = "tiles" /\ last.m = 0
RawTiles == last.op = "tiles" /\ last.m >= 1

\* C1: with a power-of-two table in 'safe' or 'unsafe' mode, every tiles call
\* returns exactly numtilings indices, each in [0, size).
C1_TableIndicesInRange ==
    (TableTiles /\ powerOf2(ct.size) /\ ct.safety \in {"safe", "unsafe"})
        => /\ ~last.raised
           /\ Len(last.ret) = last.numtilings
           /\ \A k \in 1..Len(last.ret) : last.ret[k] \in 0..(ct.size - 1)

\* C2: in 'safe' mode a call whose probing exceeds size attempts ends as an
\* error; the failure never reaches the caller as a returned value.
C2_ExhaustionIsAnError ==
    (ct.made /\ ct.safety = "safe" /\ last.op \in {"hash", "tiles"} /\ last.exh)
        => /\ last.raised
           /\ \A k \in 1..Len(last.ret) : last.ret[k] \in 0..(ct.size - 1)

\* C3: in every safety mode an occupied slot keeps its signature through every
\* step; only reset() changes it, and then to empty.
C3_OccupiedSlotsKept ==
    [][\A i \in DOMAIN ct.data :
          ct.data[i] >= 0 =>
              \/ ct'.data[i] = ct.data[i]
              \/ last'.op = "reset" /\ ct'.data[i] = -1]_vars

\* C3 witness: a call collided with an occupied slot (counted, slot kept) while
\* another slot was filled as well.
C3_Witness ==
    /\ ct.made
    /\ last.op \in {"hash", "tiles"}
    /\ ct.collisions > 0
    /\ usage(ct) >= 2

\* C4: no table object with a non-power-of-two size ever exists (construction
\* with such a size fails).
C4_SizeIsPowerOfTwo ==
    ct.made => powerOf2(ct.size)

\* What repeating a remembered tiles call on the present table would deliver.
Repeat(d) == tiles(Scratch, d.numtilings, TableMem(ct), d.floats, d.ints, "raise")

\* The tilings of a tiles result that were resolved at their primary slot.
AtPrimary(t, c) == {k \in 1..Len(t.ret) : t.ret[k] = VecPrimary(t.vecs[k], c)}

\* C5 as stated: in 'safe' mode, repeating a tiles call that succeeded returns
\* the indices of the first call and increases clearhits only, collisions staying
\* as they are.
C5_RepeatOnlyClearhits ==
    \A d \in done :
        \E t \in {Repeat(d)} :
            /\ t.ret = d.ret
            /\ t.mem.ct.clearhits > ct.clearhits
            /\ t.mem.ct.collisions = ct.collisions

\* C5 amended: the repeated call returns the indices of the first call and
\* stores nothing; it adds one to clearhits for each tiling resolved at its
\* primary slot and at least one to collisions for each tiling resolved by
\* probing.  A repetition that was actually made delivered the remembered indices.
C5_RepeatSameIndices ==
    /\ \A d \in done :
           \E t \in {Repeat(d)} :
               /\ ~t.raised
               /\ t.ret = d.ret
               /\ t.mem.ct.data = ct.data
               /\ t.mem.ct.calls = ct.calls + d.numtilings
               /\ t.mem.ct.clearhits = ct.clearhits + Cardinality(AtPrimary(t, ct))
               /\ t.mem.ct.collisions >= ct.collisions + d.numtilings - Cardinality(AtPrimary(t, ct))
               /\ (t.mem.ct.collisions = ct.collisions
                       <=> Cardinality(AtPrimary(t, ct)) = d.numtilings)
    /\ (TableTiles /\ last.repeat)
           => DoneRec(last.numtilings, last.floats, last.ints, last.ret) \in done

\* C5 witness: a tiles call was repeated on a 'safe' table after other inserts,
\* and one of its tilings sits in a slot found by probing.
C5_Witness ==
    /\ TableTiles
    /\ ct.safety = "safe"
    /\ last.repeat
    /\ Cardinality(done) >= 2
    /\ \E k \in 1..Len(last.ret) : last.ret[k] # VecPrimary(last.vecs[k], ct)

\* C6: in 'safe' mode two distinct coordinate vectors with the same primary slot
\* end in two different slots, each holding its own signature, unless the table
\* is full, and then the call raises.  Stated for the vector the last hash call
\* resolved and any other vector hashed next.
C6_DistinctVectorsDistinctSlots ==
    (ct.made /\ ct.safety = "safe" /\ last.op = "hash" /\ ~last.raised /\ ~last.exh)
        => \A u \in HashVecs :
               (u # last.vecs[1] /\ VecPrimary(u, ct) = VecPrimary(last.vecs[1], ct))
                   => \E h \in {hash(AsArray(u), Len(u), ct, "raise")} :
                          \/ /\ h.ret \in 0..(ct.size - 1)
                             /\ h.ret # last.ret[1]
                             /\ h.ct.data[h.ret] = VecCheck(u)
                             /\ h.ct.data[last.ret[1]] = VecCheck(last.vecs[1])
                          \/ /\ usage(ct) = ct.size
                             /\ h.raised

\* C7: a raw-memory tiles call is history-free: the indices it delivered from
\* the scratch arrays as earlier calls left them are the ones the same call
\* computes from untouched (all-zero) scratch arrays, and the ones it computes
\* again from the scratch arrays as they are now.
C7_RawHistoryFree ==
    RawTiles =>
        /\ last.ret = tiles(ZeroScratch, last.numtilings, RawMem(last.m), last.floats,
                            last.ints, "raise").ret
        /\ last.ret = tiles(Scratch, last.numtilings, RawMem(last.m), last.floats,
                            last.ints, "raise").ret

\* C7 witness: a raw tiles call with real and integer inputs ran on scratch
\* arrays holding values of earlier calls (tiles or tileswrap, other lengths).
C7_Witness ==
    /\ RawTiles
    /\ last.stale
    /\ last.numtilings >= 2
    /\ Len(last.floats) >= 1
    /\ Len(last.ints) >= 1
    /\ _base[1] # 0
    /\ \E k \in 1..Len(last.ret) : last.ret[k] # 0

\* C8: in tileswrap, moving the real input of a dimension with nonzero wrap
\* width w by w (up or down) leaves that dimension's coordinate in every tiling,
\* and the indices returned, as they were.
C8_WrapPeriodic ==
    last.op = "tileswrap" =>
        \A i \in 1..Len(last.floats), dir \in {-1, 1} :
            last.wrapwidths[i] # 0 =>
                \E t \in {tileswrap(Scratch, last.numtilings, RawMem(last.m),
                                    [last.floats EXCEPT ![i] = @ + dir * last.wrapwidths[i] * FloatDen],
                                    last.wrapwidths, last.ints, "raise")} :
                    /\ t.ret = last.ret
                    /\ Len(t.vecs) = last.numtilings
                    /\ \A j \in 1..last.numtilings : t.vecs[j][i] = last.vecs[j][i]

\* C8 witness: a tileswrap call wrapped a negative real input in its second
\* dimension, over at least two tilings.
C8_Witness ==
    /\ last.op = "tileswrap"
    /\ last.numtilings >= 2
    /\ Len(last.floats) = 2
    /\ last.wrapwidths[2] # 0
    /\ last.floats[2] < 0
    /\ \E j \in 1..Len(last.vecs) : last.vecs[j][2] > 0

\* C9: a raw tiles call with memory m >= 1 returns exactly numtilings indices,
\* each in [0, m), negative reals and integers included.
C9_RawIndicesInRange ==
    RawTiles =>
        /\ ~last.raised
        /\ Len(last.ret) = last.numtilings
        /\ \A k \in 1..Len(last.ret) : last.ret[k] \in 0..(last.m - 1)

\* C9 witness: a raw call with a negative real, a negative integer and m > 1
\* returned a nonzero index.
C9_Witness ==
    /\ RawTiles
    /\ last.m > 1
    /\ \E i \in 1..Len(last.floats) : last.floats[i] < 0
    /\ \E i \in 1..Len(last.ints) : last.ints[i] < 0
    /\ \E k \in 1..Len(last.ret) : last.ret[k] > 0

\* C10: reset() leaves the table as a newly constructed table of the same size
\* and safety: every slot empty, the three counters zero.
C10_ResetIsFresh ==
    [][last'.op = "reset" =>
          /\ ct' = CollisionTableInit(ct.size, ct.safety)
          /\ \A i \in 0..(ct.size - 1) : ct'.data[i] = -1
          /\ ct'.calls = 0 /\ ct'.clearhits = 0 /\ ct'.collisions = 0
          /\ ct'.size = ct.size /\ ct'.safety = ct.safety]_vars

\* C10 witness: reset() ran on a table with occupied slots and nonzero counters.
C10_Witness ==
    /\ last.op = "reset"
    /\ last.dirty
    /\ usage(ct) = 0

\* The memory argument of the last entry-point call, as it was before the call.
LastMem == IF last'.m = 0 THEN TableMem(ct) ELSE RawMem(last'.m)

\* C11: loadtiles computes what tiles computes from the same state: buffer[
\* startelement + j] is the j-th index of tiles, the table ends in the same
\* state, and every other buffer entry is left as it was.
C11_LoadtilesIsTiles ==
    [][(last'.op = "loadtiles" /\ last'.start + last'.numtilings <= BufLen) =>
          \E t \in {tiles(Scratch, last'.numtilings, LastMem, last'.floats, last'.ints,
                          last'.tv)} :
              /\ last'.raised = t.raised
              /\ last'.exh = t.exh
              /\ last'.vecs = t.vecs
              /\ ct' = (IF last'.m = 0 THEN t.mem.ct ELSE ct)
              /\ ~t.raised => Len(t.ret) = last'.numtilings
              /\ \A j \in 0..(Len(t.ret) - 1) : buffer'[last'.start + j] = t.ret[j + 1]
              /\ \A k \in DOMAIN buffer :
                     (k < last'.start \/ k >= last'.start + Len(t.ret))
                         => buffer'[k] = buffer[k]]_vars

\* C11 witness: loadtiles wrote two tiles, not at the start of the buffer, from
\* a table an earlier tiles call had populated.
C11_Witness ==
    /\ ct.made
    /\ last.op = "loadtiles"
    /\ last.m = 0
    /\ ~last.raised
    /\ last.numtilings >= 2
    /\ last.start >= 1
    /\ ct.calls > last.numtilings
    /\ buffer[0] = 5
    /\ buffer[last.start] # buffer[last.start + 1]

\* C12: an entry-point call with more than _maxnumfloats reals fails before a
\* tile index is computed and leaves the table and the caller's buffer alone.
C12_LongFloatsFail ==
    [][(/\ last'.op \in {"tiles", "loadtiles", "tileswrap", "loadtileswrap"}
        /\ Len(last'.floats) > _maxnumfloats) =>
          /\ last'.raised
          /\ last'.ret = <<>>
          /\ last'.vecs = <<>>
          /\ ct' = ct
          /\ buffer' = buffer]_vars

\* C12 witness: a load call with 21 reals failed on a table that holds tiles.
C12_Witness ==
    /\ ct.made
    /\ last.op \in {"loadtiles", "loadtileswrap"}
    /\ last.m = 0
    /\ Len(last.floats) > _maxnumfloats
    /\ last.raised
    /\ usage(ct) >= 1

\* C18: tileswrap with every wrap width 0 builds the vectors and returns the
\* indices of tiles from the same state, and a dimension with nonzero width w
\* gets a coordinate in [0, w * numtilings) in every tiling.
C18_ZeroWidthIsTiles ==
    [][last'.op = "tileswrap" =>
          /\ (\A i \in 1..Len(last'.wrapwidths) : last'.wrapwidths[i] = 0) =>
                 \E t \in {tiles(Scratch, last'.numtilings, LastMem, last'.floats,
                                 last'.ints, last'.tv)} :
                     /\ last'.ret = t.ret
                     /\ last'.vecs = t.vecs
                     /\ last'.raised = t.raised
                     /\ ct' = (IF last'.m = 0 THEN t.mem.ct ELSE ct)
          /\ \A k \in 1..Len(last'.vecs), i \in 1..Len(last'.wrapwidths) :
                 last'.wrapwidths[i] # 0 =>
                     /\ last'.vecs[k][i] >= 0
                     /\ last'.vecs[k][i] < last'.wrapwidths[i] * last'.numtilings]_vars

\* C18 witness: tileswrap on a table over two tilings, two real dimensions,
\* the first unwrapped, the second a negative real that was wrapped.
C18_Witness ==
    /\ ct.made
    /\ last.op = "tileswrap"
    /\ last.m = 0
    /\ ~last.raised
    /\ Len(last.floats) = 2
    /\ last.wrapwidths[1] = 0
    /\ last.wrapwidths[2] # 0
    /\ last.floats[2] < 0
    /\ Len(last.vecs) >= 2

\* C13: stats() returns (calls, clearhits, collisions, usage) with the integer
\* count of occupied slots as fourth component, and stats() and usage() leave
\* slots and counters alone.
C13_StatsTuple ==
    /\ last.op = "stats" =>
           last.stats = <<PyInt(ct.calls), PyInt(ct.clearhits), PyInt(ct.collisions),
                          PyInt(usage(ct))>>
    /\ last.op = "usage" => last.ret = <<usage(ct)>>

\* What the call of thread p returns when it runs alone.
Alone(p) ==
    tiles(ZeroScratch, thr[p].numtilings, RawMem(thr[p].m), thr[p].floats, thr[p].ints,
          "raise").ret

\* C14: calls whose steps interleave corrupt each other through the shared
\* scratch arrays: a finished call returned indices other than the ones it
\* returns alone only when a step of the other call fell between its steps (and
\* the witness is such a call).
C14_CorruptOnlyWhenInterleaved ==
    \A p \in Threads :
        (thr[p].pc = "done" /\ thr[p].tlist # Alone(p)) => thr[p].mixed

\* C14 witness: a finished call returned numtilings indices that differ from the
\* ones it returns alone on the same inputs.
C14_Witness ==
    \E p \in Threads :
        /\ thr[p].pc = "done"
        /\ thr[p].mixed
        /\ Len(thr[p].tlist) = thr[p].numtilings
        /\ thr[p].tlist # Alone(p)

\* The vector, primary slot, fingerprint and rehash step of the hash call that
\* the step made.
LastVec == last'.vecs[1]
LastStep == rehashStep(AsArray(LastVec), Len(LastVec))

\* C15: in 'safe' mode on a power-of-two table the rehash step is odd and the
\* probe sequence reaches every slot within size probes; a call reports
\* exhaustion only when no slot is empty and none holds its fingerprint, and
\* with an empty slot left it returns a slot that holds its fingerprint.
C15_OddStepFullCycle ==
    [][(last'.op = "hash" /\ ct.safety = "safe" /\ powerOf2(ct.size)) =>
          /\ LastStep % 2 = 1
          /\ {(VecPrimary(LastVec, ct) + k * LastStep) % ct.size : k \in 1..ct.size}
                 = 0..(ct.size - 1)
          /\ last'.exh => /\ usage(ct) = ct.size
                          /\ \A i \in DOMAIN ct.data : ct.data[i] # VecCheck(LastVec)
          /\ usage(ct) < ct.size =>
                 /\ ~last'.exh
                 /\ ~last'.raised
                 /\ last'.ret[1] \in 0..(ct.size - 1)
                 /\ ct'.data[last'.ret[1]] = VecCheck(LastVec)]_vars

\* C15 witness: on a table of four slots or more a call was resolved by
\* probing, more than one step away from its primary slot.
C15_Witness ==
    /\ ct.made
    /\ ct.size >= 4
    /\ last.op = "hash"
    /\ ~last.exh
    /\ \E h \in {VecPrimary(last.vecs[1], ct)} :
           /\ last.ret[1] # h
           /\ last.ret[1] # (h + 1) % ct.size
    /\ ct.data[last.ret[1]] = VecCheck(last.vecs[1])

\* C16: in 'unsafe' mode a hash call returns its primary slot without probing;
\* on a slot held by another fingerprint it adds exactly one collision and
\* changes no slot; no call, tiles included, writes anything but an empty
\* primary slot.
C16_UnsafeNeverProbes ==
    [][/\ (ct.safety = "unsafe" /\ last'.op = "hash") =>
              \E j \in {VecPrimary(LastVec, ct)} :
                  /\ ~last'.raised
                  /\ last'.ret = <<j>>
                  /\ (ct.data[j] >= 0 /\ ct.data[j] # VecCheck(LastVec)) =>
                         /\ ct'.collisions = ct.collisions + 1
                         /\ ct'.data = ct.data
                  /\ \A i \in DOMAIN ct.data :
                         ct'.data[i] # ct.data[i] => (i = j /\ ct.data[i] < 0)
       /\ (ct.safety = "unsafe" /\ last'.op = "tiles") =>
              /\ \A k \in 1..Len(last'.ret) : last'.ret[k] = VecPrimary(last'.vecs[k], ct)
              /\ \A i \in DOMAIN ct.data :
                     ct'.data[i] # ct.data[i] =>
                         /\ ct.data[i] < 0
                         /\ \E k \in 1..Len(last'.vecs) : i = VecPrimary(last'.vecs[k], ct)]_vars

\* C16 witness: an 'unsafe' hash call returned a slot that holds another
\* fingerprint, counted as a collision, while an empty slot was left.
C16_Witness ==
    /\ ct.made
    /\ ct.safety = "unsafe"
    /\ last.op = "hash"
    /\ ct.data[last.ret[1]] >= 0
    /\ ct.data[last.ret[1]] # VecCheck(last.vecs[1])
    /\ ct.collisions >= 1
    /\ usage(ct) < ct.size

\* C19: every hash call adds one to calls and then either one to clearhits and
\* nothing to collisions, or nothing to clearhits and at least one to
\* collisions; clearhits <= calls, usage <= min(calls, size), and usage only
\* decreases through reset().
C19_CounterAccounting ==
    [][/\ last'.op = "hash" =>
              /\ ct'.calls = ct.calls + 1
              /\ \/ ct'.clearhits = ct.clearhits + 1 /\ ct'.collisions = ct.collisions
                 \/ ct'.clearhits = ct.clearhits /\ ct'.collisions > ct.collisions
       /\ ct'.made =>
              /\ ct'.clearhits <= ct'.calls
              /\ usage(ct') <= ct'.calls
              /\ usage(ct') <= ct'.size
       /\ (ct.made /\ last'.op # "reset") => usage(ct') >= usage(ct)]_vars

\* C20: every hash call ends, in every safety mode and for every size: its
\* rehash loop runs at most size + 1 times, the call writes at most one slot,
\* and a call that ends in exhaustion has written none.
C20_HashTerminates ==
    [][last'.op = "hash" =>
          \E tv \in TruthValuesFor(ct) :
              \E h \in {hash(AsArray(LastVec), Len(LastVec), ct, tv)} :
                  /\ h.ct = ct'
                  /\ h.raised = last'.raised
                  /\ h.exh = last'.exh
                  /\ h.iters <= ct.size + 1
                  /\ h.writes <= 1
                  /\ Cardinality({i \in DOMAIN ct.data : ct'.data[i] # ct.data[i]}) <= 1
                  /\ h.exh => (h.writes = 0 /\ ct'.data = ct.data)]_vars

\* C20 witness: a hash call on a table whose size is not a power of two ran
\* its rehash loop to exhaustion.
C20_Witness ==
    /\ ct.made
    /\ ~powerOf2(ct.size)
    /\ last.op = "hash"
    /\ last.exh
    /\ ct.collisions >= ct.size + 1

\* C17: in tiling j the coordinate of real dimension i with quantized value q
\* is q - floormod(q - j*(1+2*i), numtilings), the largest integer c <= q with
\* c congruent to j*(1+2*i) modulo numtilings; the displacement starts at 0 in
\* every call and grows by 1+2*i per tiling.
C17_DisplacedCoordinate ==
    RawTiles =>
        /\ Len(last.vecs) = last.numtilings
        /\ \A j \in 0..(last.numtilings - 1), i \in 0..(Len(last.floats) - 1) :
               \E q \in {quantize(last.floats[i + 1], last.numtilings)} :
                   \E c \in {last.vecs[j + 1][i + 1]} :
                       /\ c = q - ((q - j * (1 + 2 * i)) % last.numtilings)
                       /\ c <= q
                       /\ c > q - last.numtilings
                       /\ (c - j * (1 + 2 * i)) % last.numtilings = 0
        /\ \A i \in 0..(Len(last.floats) - 1) : _base[i] = last.numtilings * (1 + 2 * i)

\* C17 witness: a call over three tilings or more on scratch arrays an earlier
\* call left, with a negative and a positive quantized value, in which a
\* tiling after the first took each branch of the formula and moved a coordinate.
C17_Witness ==
    /\ RawTiles
    /\ last.stale
    /\ last.numtilings >= 3
    /\ Len(last.floats) = 3
    /\ last.floats[1] < 0
    /\ last.floats[3] > 0
    /\ \E j \in 1..(last.numtilings - 1), i \in 0..2 :
           /\ quantize(last.floats[i + 1], last.numtilings) >= j * (1 + 2 * i)
           /\ last.vecs[j + 1][i + 1] # quantize(last.floats[i + 1], last.numtilings)
    /\ \E j \in 1..(last.numtilings - 1), i \in 0..2 :
           /\ quantize(last.floats[i + 1], last.numtilings) < j * (1 + 2 * i)
           /\ last.vecs[j + 1][i + 1] # quantize(last.floats[i + 1], last.numtilings)

====
